---- MODULE Spec2Model ----
(***************************************************************************)
(* Model of the EXE-GAN guided-recovery service:                           *)
(*   service/exegan_service.py  ExeGanGuidedRecovery (the orchestrator)     *)
(*   service/api.py             guided_recovery      (the transport adapter)*)
(*                                                                         *)
(* The state is the filesystem (four staging directories plus one place    *)
(* outside them) and, per request, the position of the handler in          *)
(* run(): clear -> stage -> spawn -> wait -> harvest -> returned.          *)
(* Every file carries the id of the call that created it, so that          *)
(* residue and cross-request contamination are visible in the state.       *)
(***************************************************************************)
EXTENDS Integers, Sequences, FiniteSets, TLC

\* ------------------------------------------------------------------ bounds
MaxCalls == 2        \* run calls made in one behaviour
MaxSamples == 2      \* largest sample_times a request carries

\* ------------------------------------------------------- program constants
SampleSize == 256    \* sample_size default
Index == 0           \* index=0 passed by run to _save_triplet/_load_outputs

Threads == {"t1", "t2"}

\* ------------------------------------------------------------ the requests
expected == <<SampleSize, SampleSize>>
BadSize == <<SampleSize, SampleSize \div 2>>
Sizes == {expected, BadSize}

\* sample_times: int = Form(1); the adapter applies no range check
SampleTimesDomain == 0..MaxSamples

\* the requests: every sample_times with three images of the expected size,
\* and every combination of wrong sizes with the default sample_times
Requests ==
  {r \in [test : Sizes, mask : Sizes, exemplar : Sizes, sample_times : SampleTimesDomain] :
     (r.test = expected /\ r.mask = expected /\ r.exemplar = expected) \/ r.sample_times = 1}

NoRequest ==
  [test |-> expected, mask |-> expected, exemplar |-> expected, sample_times |-> 1]

\* ------------------------------------------------------------- the images
\* An image: its size, its mode, and the identity of its pixel data:
\* part (which of the inputs, or "out"), by (the call that created it),
\* from (the call whose staged inputs it was generated from), sample.
Img(sz, md, pt, b, f, s) ==
  [size |-> sz, mode |-> md, part |-> pt, by |-> b, from |-> f, sample |-> s]

\* Image.open(...).convert("RGB") / .convert("L") in the adapter
TestImg(r, c) == Img(r.test, "RGB", "test", c, c, 0)
MaskImg(r, c) == Img(r.mask, "L", "mask", c, c, 0)
ExemplarImg(r, c) == Img(r.exemplar, "RGB", "exemplar", c, c, 0)

\* Image.convert("RGB"): the pixel data is kept, the mode becomes RGB
ConvertRGB(im) == [im EXCEPT !.mode = "RGB"]

\* outputs[0].save(buf, format="PNG"); buf.getvalue()
EncodePNG(im) == [format |-> "PNG", img |-> im]

\* ---------------------------------------------------------- the filesystem
StagingDirs == {"mask_dir", "gt_dir", "exemplar_dir", "out_dir"}
Locations == StagingDirs \cup {"elsewhere"}

Str(k) ==
  CASE k = 0 -> "0" [] k = 1 -> "1" [] k = 2 -> "2" [] k = 3 -> "3"
    [] k = 4 -> "4" [] k = 5 -> "5" [] OTHER -> "n"

\* f"{index}.png"
InName(index) == Str(index) \o ".png"
\* f"{index}_{j}_inpaint.png"
OutName(index, j) == Str(index) \o "_" \o Str(j) \o "_inpaint.png"

OutNames == {OutName(Index, j) : j \in 0..(MaxSamples - 1)}
Names == {InName(Index), "sub"} \cup OutNames

NoEntry == [type |-> "none"]
FileOf(im) == [type |-> "file", img |-> im]
\* a subdirectory, with one regular file inside it
SubDir == [type |-> "dir", inner |-> FileOf(Img(expected, "RGB", "old", 0, 0, 0))]

IsFile(e) == e.type = "file"

EmptyFs == [loc \in Locations |-> [nm \in Names |-> NoEntry]]

\* What an existing installation may already hold when the service starts:
\* mkdir(parents=True, exist_ok=True) keeps whatever is there.
OldFile(pt, s) == FileOf(Img(expected, "RGB", pt, 0, 0, s))
DirtyFs ==
  [loc \in Locations |->
    [nm \in Names |->
      IF nm = "sub" THEN (IF loc = "elsewhere" THEN NoEntry ELSE SubDir)
      ELSE IF loc = "out_dir" /\ nm \in OutNames THEN OldFile("out", 0)
      ELSE IF loc \in {"mask_dir", "gt_dir", "exemplar_dir", "elsewhere"} /\ nm = InName(Index)
        THEN OldFile("old", 0)
      ELSE NoEntry]]

VARIABLES fs, pc, req, id, calls, exitcode, result, resp, outmode,
          launches, loop, dirs

vars == <<fs, pc, req, id, calls, exitcode, result, resp, outmode,
          launches, loop, dirs>>

NoResult == [kind |-> "none", what |-> "", imgs |-> <<>>]
NoResp == [kind |-> "none"]
NoExit == 0 - 1
\* the event loop thread is executing no coroutine
NoTask == "none"

\* -------------------------------------------------- ExeGanGuidedRecovery
\* variants of _clear_io_dirs with a plausible slip
ClearIoDirsNoop(f) == f

ClearIoDirsInputsOnly(f) ==
  [loc \in Locations |->
    IF loc \in {"mask_dir", "gt_dir", "exemplar_dir"}
      THEN [nm \in Names |-> IF f[loc][nm].type = "file" THEN NoEntry ELSE f[loc][nm]]
      ELSE f[loc]]

ClearIoDirsRecursive(f) ==
  [loc \in Locations |->
    IF loc \in StagingDirs THEN [nm \in Names |-> NoEntry] ELSE f[loc]]

\* _clear_io_dirs: for d in the four dirs: for f in d.iterdir():
\*                   if f.is_file(): f.unlink()
ClearIoDirs(f) ==
  [loc \in Locations |->
    IF loc \in StagingDirs
      THEN [nm \in Names |-> IF IsFile(f[loc][nm]) THEN NoEntry ELSE f[loc][nm]]
      ELSE f[loc]]

\* img.save(dir / name)
Save(f, loc, nm, im) == [f EXCEPT ![loc][nm] = FileOf(im)]

\* variant of _save_triplet that saves each image right after its own check
SaveTripletInterleaved(f, r, c, index) ==
  IF r.test # expected THEN [err |-> "test_img", fs |-> f]
  ELSE LET f1 == Save(f, "gt_dir", InName(index), TestImg(r, c)) IN
    IF r.mask # expected THEN [err |-> "mask_img", fs |-> f1]
    ELSE LET f2 == Save(f1, "mask_dir", InName(index), MaskImg(r, c)) IN
      IF r.exemplar # expected THEN [err |-> "exemplar_img", fs |-> f2]
      ELSE [err |-> "",
            fs |-> Save(f2, "exemplar_dir", InName(index), ExemplarImg(r, c))]

\* variant of _save_triplet that saves the face under images/mask and the
\* mask under images/target
SaveTripletSwapped(f, r, c, index) ==
  IF r.test # expected THEN [err |-> "test_img", fs |-> f]
  ELSE IF r.mask # expected THEN [err |-> "mask_img", fs |-> f]
  ELSE IF r.exemplar # expected THEN [err |-> "exemplar_img", fs |-> f]
  ELSE [err |-> "",
        fs |-> Save(Save(Save(f, "mask_dir", InName(index), TestImg(r, c)),
                         "gt_dir", InName(index), MaskImg(r, c)),
                    "exemplar_dir", InName(index), ExemplarImg(r, c))]

\* _save_triplet: the three size checks, then the three saves
SaveTriplet(f, r, c, index) ==
  IF r.test # expected THEN [err |-> "test_img", fs |-> f]
  ELSE IF r.mask # expected THEN [err |-> "mask_img", fs |-> f]
  ELSE IF r.exemplar # expected THEN [err |-> "exemplar_img", fs |-> f]
  ELSE [err |-> "",
        fs |-> Save(Save(Save(f, "gt_dir", InName(index), TestImg(r, c)),
                         "mask_dir", InName(index), MaskImg(r, c)),
                    "exemplar_dir", InName(index), ExemplarImg(r, c))]

\* path.exists()
Exists(f, loc, nm) == f[loc][nm].type # "none"

\* _load_outputs: for j in range(sample_times): raise on the first missing
\* file, else append Image.open(path).convert("RGB")
RECURSIVE LoadFrom(_, _, _, _, _)
LoadFrom(f, index, j, sample_times, imgs) ==
  IF j >= sample_times THEN [kind |-> "ok", what |-> "", imgs |-> imgs]
  ELSE IF ~Exists(f, "out_dir", OutName(index, j))
    THEN [kind |-> "FileNotFoundError", what |-> OutName(index, j), imgs |-> <<>>]
  ELSE LoadFrom(f, index, j + 1, sample_times,
                Append(imgs, ConvertRGB(f["out_dir"][OutName(index, j)].img)))

\* variant of _load_outputs that inserts each image at the front of the list
Reverse(sq) == [k \in 1..Len(sq) |-> sq[Len(sq) + 1 - k]]

LoadOutputsReversed(f, index, sample_times) ==
  LET r == LoadFrom(f, index, 0, sample_times, <<>>) IN
    [r EXCEPT !.imgs = Reverse(r.imgs)]

\* variant of _load_outputs that skips a missing file instead of raising
RECURSIVE LoadSkipping(_, _, _, _, _)
LoadSkipping(f, index, j, sample_times, imgs) ==
  IF j >= sample_times THEN [kind |-> "ok", what |-> "", imgs |-> imgs]
  ELSE IF ~Exists(f, "out_dir", OutName(index, j))
    THEN LoadSkipping(f, index, j + 1, sample_times, imgs)
  ELSE LoadSkipping(f, index, j + 1, sample_times,
                    Append(imgs, ConvertRGB(f["out_dir"][OutName(index, j)].img)))

LoadOutputsPartial(f, index, sample_times) ==
  LoadSkipping(f, index, 0, sample_times, <<>>)

LoadOutputs(f, index, sample_times) == LoadFrom(f, index, 0, sample_times, <<>>)

\* subprocess.run(cmd) without check=True: the status is ignored
Unchecked(code) == FALSE

\* subprocess.run(cmd, check=True): a non-zero status raises
Checked(code) == code # 0

\* --------------------------------------------------------------- actions
InitFs == {EmptyFs, DirtyFs}

\* the mode of the PNG files the installed guided_recovery.py writes
OutModes == {"RGB", "RGBA"}
ExitCodes == {0, 1}

Init ==
  /\ fs \in InitFs
  /\ outmode \in OutModes
  /\ pc = [t \in Threads |-> "idle"]
  /\ req = [t \in Threads |-> NoRequest]
  /\ id = [t \in Threads |-> 0]
  /\ calls = 0
  /\ exitcode = [t \in Threads |-> NoExit]
  /\ result = [t \in Threads |-> NoResult]
  /\ resp = [t \in Threads |-> NoResp]
  /\ launches = [t \in Threads |-> 0]
  /\ loop = NoTask
  /\ dirs = StagingDirs

\* guided_recovery up to the call of service.run: the request is decoded
Receive(t, r) ==
  /\ pc[t] \in {"idle", "responded"}
  /\ calls < MaxCalls
  /\ calls' = calls + 1
  /\ id' = [id EXCEPT ![t] = calls + 1]
  /\ req' = [req EXCEPT ![t] = r]
  /\ pc' = [pc EXCEPT ![t] = "clear"]
  /\ exitcode' = [exitcode EXCEPT ![t] = NoExit]
  /\ result' = [result EXCEPT ![t] = NoResult]
  /\ resp' = [resp EXCEPT ![t] = NoResp]
  /\ launches' = [launches EXCEPT ![t] = 0]
  /\ UNCHANGED <<fs, outmode, loop, dirs>>

\* requests served one at a time: no run is in progress when one starts
Begin(t) ==
  /\ \A u \in Threads : pc[u] \in {"idle", "responded"}
  /\ \E r \in Requests : Receive(t, r)

\* two requests served by overlapping threads, one request each
BeginConc(t) ==
  /\ pc[t] = "idle"
  /\ \E r \in Requests : Receive(t, r)

InRun == {"clear", "stage", "spawn", "wait", "harvest"}

\* variant of the clearing step that waits for a lock held by a running call
ClearLocked(t) ==
  /\ pc[t] = "clear"
  /\ \A u \in Threads \ {t} : pc[u] \notin (InRun \ {"clear"})
  /\ fs' = ClearIoDirs(fs)
  /\ pc' = [pc EXCEPT ![t] = "stage"]
  /\ UNCHANGED <<req, id, calls, exitcode, result, resp, outmode, launches, loop, dirs>>

\* run, line 168: self._clear_io_dirs()
Clear(t) ==
  /\ pc[t] = "clear"
  /\ fs' = ClearIoDirs(fs)
  /\ pc' = [pc EXCEPT ![t] = "stage"]
  /\ UNCHANGED <<req, id, calls, exitcode, result, resp, outmode, launches, loop, dirs>>

\* run, line 169: self._save_triplet(test_img, mask_img, exemplar_img, index=0)
Stage(t) ==
  /\ pc[t] = "stage"
  /\ LET s == SaveTriplet(fs, req[t], id[t], Index) IN
       /\ fs' = s.fs
       /\ IF s.err # ""
            THEN /\ result' = [result EXCEPT ![t] =
                                 [kind |-> "ValueError", what |-> s.err, imgs |-> <<>>]]
                 /\ pc' = [pc EXCEPT ![t] = "returned"]
            ELSE /\ pc' = [pc EXCEPT ![t] = "spawn"]
                 /\ UNCHANGED result
  /\ UNCHANGED <<req, id, calls, exitcode, resp, outmode, launches, loop, dirs>>

\* run, line 170 / _run_script: the external process is launched
Spawn(t) ==
  /\ pc[t] = "spawn"
  /\ pc' = [pc EXCEPT ![t] = "wait"]
  /\ launches' = [launches EXCEPT ![t] = launches[t] + 1]
  /\ UNCHANGED <<fs, req, id, calls, exitcode, result, resp, outmode, loop, dirs>>

\* the external process writes sample j into the output directory, generated
\* from the inputs staged at that moment
ProcWrite(t, j) ==
  /\ pc[t] = "wait"
  /\ LET g == fs["gt_dir"][InName(Index)]
         src == IF IsFile(g) THEN g.img.by ELSE 0 IN
       fs' = Save(fs, "out_dir", OutName(Index, j),
                  Img(expected, outmode, "out", id[t], src, j))
  /\ UNCHANGED <<pc, req, id, calls, exitcode, result, resp, outmode, launches, loop, dirs>>

\* variant that launches the process again after a non-zero status
ProcExitRetry(t, code) ==
  /\ pc[t] = "wait"
  /\ exitcode' = [exitcode EXCEPT ![t] = code]
  /\ pc' = [pc EXCEPT ![t] = IF Checked(code) THEN "spawn" ELSE "harvest"]
  /\ UNCHANGED <<fs, req, id, calls, result, resp, outmode, launches, loop, dirs>>

\* variant with subprocess.run(..., timeout=...): the wait may end with
\* TimeoutExpired although the process has not exited
ProcExitOrTimeout(t, code) ==
  /\ pc[t] = "wait"
  /\ IF code = 0
       THEN /\ exitcode' = [exitcode EXCEPT ![t] = code]
            /\ pc' = [pc EXCEPT ![t] = "harvest"]
            /\ UNCHANGED result
       ELSE /\ result' = [result EXCEPT ![t] =
                            [kind |-> "TimeoutExpired", what |-> "", imgs |-> <<>>]]
            /\ pc' = [pc EXCEPT ![t] = "returned"]
            /\ UNCHANGED exitcode
  /\ UNCHANGED <<fs, req, id, calls, resp, outmode, launches, loop, dirs>>

\* the external process exits; subprocess.run(check=True) returns or raises
ProcExit(t, code) ==
  /\ pc[t] = "wait"
  /\ exitcode' = [exitcode EXCEPT ![t] = code]
  /\ IF Checked(code)
       THEN /\ result' = [result EXCEPT ![t] =
                            [kind |-> "CalledProcessError", what |-> "", imgs |-> <<>>]]
            /\ pc' = [pc EXCEPT ![t] = "returned"]
       ELSE /\ pc' = [pc EXCEPT ![t] = "harvest"]
            /\ UNCHANGED result
  /\ UNCHANGED <<fs, req, id, calls, resp, outmode, launches, loop, dirs>>

\* variant that removes the output files once they have been loaded
HarvestAndCleanup(t) ==
  /\ pc[t] = "harvest"
  /\ result' = [result EXCEPT ![t] = LoadOutputs(fs, Index, req[t].sample_times)]
  /\ fs' = [fs EXCEPT !["out_dir"] =
              [nm \in Names |-> IF IsFile(fs["out_dir"][nm]) THEN NoEntry
                                                             ELSE fs["out_dir"][nm]]]
  /\ pc' = [pc EXCEPT ![t] = "returned"]
  /\ UNCHANGED <<req, id, calls, exitcode, resp, outmode, launches, loop, dirs>>

\* run, line 171: return self._load_outputs(index=0, sample_times=sample_times)
Harvest(t) ==
  /\ pc[t] = "harvest"
  /\ result' = [result EXCEPT ![t] = LoadOutputs(fs, Index, req[t].sample_times)]
  /\ pc' = [pc EXCEPT ![t] = "returned"]
  /\ UNCHANGED <<fs, req, id, calls, exitcode, resp, outmode, launches, loop, dirs>>

\* guided_recovery after service.run: outputs[0] encoded as PNG, or the
\* exception (run's, or the IndexError of outputs[0]) propagates
Response(res) ==
  IF res.kind # "ok" THEN [kind |-> "error", error |-> res.kind]
  ELSE IF Len(res.imgs) = 0 THEN [kind |-> "error", error |-> "IndexError"]
  ELSE [kind |-> "image", media_type |-> "image/png", content |-> EncodePNG(res.imgs[1])]

Respond(t) ==
  /\ pc[t] = "returned"
  /\ resp' = [resp EXCEPT ![t] = Response(result[t])]
  /\ pc' = [pc EXCEPT ![t] = "responded"]
  /\ UNCHANGED <<fs, req, id, calls, exitcode, result, outmode, launches, loop, dirs>>

Step(t) ==
  \/ Clear(t)
  \/ Stage(t)
  \/ Spawn(t)
  \/ \E j \in 0..(MaxSamples - 1) : ProcWrite(t, j)
  \/ \E code \in ExitCodes : ProcExit(t, code)
  \/ Harvest(t)
  \/ Respond(t)

Next == \E t \in Threads : Begin(t) \/ Step(t)

Spec == Init /\ [][Next]_vars

\* the steps the calling thread takes by itself; the external process is
\* under no obligation to write or to exit
RunStep(t) == Clear(t) \/ Stage(t) \/ Spawn(t) \/ Harvest(t) \/ Respond(t)

\* progress does not depend on what the directories held at the start
InitLive == Init /\ fs = EmptyFs /\ outmode = "RGB"

SpecLive == InitLive /\ [][Next]_vars /\ \A t \in Threads : WF_vars(RunStep(t))

\* ---- the adapter as a coroutine on one event loop (async def guided_recovery)
\* loop is the coroutine the event loop thread is executing; a coroutine gives
\* the thread up only at an await or when it finishes.
Reads == {"read_test", "read_mask", "read_exemplar"}

\* a request arrives; its handler runs up to `await test_image.read()`
Accept(t) ==
  /\ loop = NoTask
  /\ pc[t] \in {"idle", "responded"}
  /\ calls + Cardinality({u \in Threads : pc[u] \in Reads}) < MaxCalls
  /\ pc' = [pc EXCEPT ![t] = "read_test"]
  /\ UNCHANGED <<fs, req, id, calls, exitcode, result, resp, outmode, launches, loop, dirs>>

\* an upload read completes; the handler resumes and runs up to the next await
ResumeRead(t) ==
  /\ loop = NoTask
  /\ pc[t] \in {"read_test", "read_mask"}
  /\ pc' = [pc EXCEPT ![t] = IF pc[t] = "read_test" THEN "read_mask" ELSE "read_exemplar"]
  /\ UNCHANGED <<fs, req, id, calls, exitcode, result, resp, outmode, launches, loop, dirs>>

\* variant: await run_in_threadpool(service.run, ...) gives the thread up
ResumeRunInThreadpool(t) ==
  /\ loop = NoTask
  /\ pc[t] = "read_exemplar"
  /\ \E r \in Requests :
       /\ calls' = calls + 1
       /\ id' = [id EXCEPT ![t] = calls + 1]
       /\ req' = [req EXCEPT ![t] = r]
  /\ pc' = [pc EXCEPT ![t] = "clear"]
  /\ exitcode' = [exitcode EXCEPT ![t] = NoExit]
  /\ result' = [result EXCEPT ![t] = NoResult]
  /\ resp' = [resp EXCEPT ![t] = NoResp]
  /\ launches' = [launches EXCEPT ![t] = 0]
  /\ UNCHANGED <<fs, outmode, loop, dirs>>

\* the last read completes; the handler decodes the images (lines 25-27) and
\* calls service.run (line 30) without awaiting: it keeps the thread
ResumeRun(t) ==
  /\ loop = NoTask
  /\ pc[t] = "read_exemplar"
  /\ \E r \in Requests :
       /\ calls' = calls + 1
       /\ id' = [id EXCEPT ![t] = calls + 1]
       /\ req' = [req EXCEPT ![t] = r]
  /\ pc' = [pc EXCEPT ![t] = "clear"]
  /\ exitcode' = [exitcode EXCEPT ![t] = NoExit]
  /\ result' = [result EXCEPT ![t] = NoResult]
  /\ resp' = [resp EXCEPT ![t] = NoResp]
  /\ launches' = [launches EXCEPT ![t] = 0]
  /\ loop' = t
  /\ UNCHANGED <<fs, outmode, dirs>>

\* service.run executes on the event loop thread, which it blocks
LoopStep(t) ==
  /\ loop = t
  /\ \/ Clear(t)
     \/ Stage(t)
     \/ Spawn(t)
     \/ \E j \in 0..(MaxSamples - 1) : ProcWrite(t, j)
     \/ \E code \in ExitCodes : ProcExit(t, code)
     \/ Harvest(t)

\* lines 33-36: the response is built and the handler finishes
LoopRespond(t) ==
  /\ loop = t
  /\ pc[t] = "returned"
  /\ resp' = [resp EXCEPT ![t] = Response(result[t])]
  /\ pc' = [pc EXCEPT ![t] = "responded"]
  /\ loop' = NoTask
  /\ UNCHANGED <<fs, req, id, calls, exitcode, result, outmode, launches, dirs>>

NextLoop ==
  \E t \in Threads :
    Accept(t) \/ ResumeRead(t) \/ ResumeRun(t) \/ LoopStep(t) \/ LoopRespond(t)

SpecLoop == Init /\ [][NextLoop]_vars

\* ---- construction of the orchestrator (__init__, lines 59-60)
\* variant that recreates the directories from scratch
MakeDirsFresh(f, ds) ==
  [fs |-> [loc \in Locations |->
             IF loc \in StagingDirs THEN [nm \in Names |-> NoEntry] ELSE f[loc]],
   dirs |-> StagingDirs]

\* for d in (mask_dir, gt_dir, exemplar_dir, out_dir):
\*     d.mkdir(parents=True, exist_ok=True)
MakeDirs(f, ds) == [fs |-> f, dirs |-> ds \cup StagingDirs]

Construct ==
  /\ fs' = MakeDirs(fs, dirs).fs
  /\ dirs' = MakeDirs(fs, dirs).dirs
  /\ UNCHANGED <<pc, req, id, calls, exitcode, result, resp, outmode, launches, loop>>

\* what the repository root may hold before the orchestrator is constructed:
\* none, one or all of the staging directories, with old content in those
\* that exist
PreDirs == {{}, {"out_dir"}, StagingDirs}
PreFs(ds) ==
  [loc \in Locations |-> IF loc \in ds \cup {"elsewhere"} THEN DirtyFs[loc] ELSE EmptyFs[loc]]

InitCtor ==
  /\ dirs \in PreDirs
  /\ fs = PreFs(dirs)
  /\ outmode = "RGB"
  /\ pc = [t \in Threads |-> "idle"]
  /\ req = [t \in Threads |-> NoRequest]
  /\ id = [t \in Threads |-> 0]
  /\ calls = 0
  /\ exitcode = [t \in Threads |-> NoExit]
  /\ result = [t \in Threads |-> NoResult]
  /\ resp = [t \in Threads |-> NoResp]
  /\ launches = [t \in Threads |-> 0]
  /\ loop = NoTask

\* run is a method of a constructed orchestrator: the directories exist
NextCtor ==
  \/ Construct
  \/ /\ dirs = StagingDirs
     /\ \E t \in Threads : Begin(t) \/ Step(t)

SpecCtor == InitCtor /\ [][NextCtor]_vars

NextConc == \E t \in Threads : BeginConc(t) \/ Step(t)

\* the overlapping calls start from freshly created, empty directories
InitConc == Init /\ fs = EmptyFs /\ outmode = "RGB"

SpecConc == InitConc /\ [][NextConc]_vars

\* ------------------------------------------------------------ properties
Returned(t) == pc[t] \in {"returned", "responded"}
\* the call of t is the latest one: no later call has touched the filesystem
Latest(t) == id[t] = calls /\ calls > 0
OutFile(j) == fs["out_dir"][OutName(Index, j)]
SizesOK(r) == r.test = expected /\ r.mask = expected /\ r.exemplar = expected

\* C1: a run with sample_times = n >= 1 that succeeds returns exactly n images,
\* and the image at position j is the (RGB-converted) content of 0_j_inpaint.png.
C1_ResultIsOutputsInOrder ==
  \A t \in Threads :
    (Returned(t) /\ Latest(t) /\ result[t].kind = "ok" /\ req[t].sample_times >= 1) =>
      /\ SizesOK(req[t])
      /\ Len(result[t].imgs) = req[t].sample_times
      /\ \A j \in 0..(req[t].sample_times - 1) :
           /\ IsFile(OutFile(j))
           /\ result[t].imgs[j + 1] = ConvertRGB(OutFile(j).img)

C1_Witness ==
  \E t \in Threads :
    /\ Returned(t) /\ Latest(t) /\ result[t].kind = "ok"
    /\ req[t].sample_times = 2 /\ Len(result[t].imgs) = 2
    /\ OutFile(0).img.mode = "RGBA"

\* C2: a wrong-size image makes run fail with a validation error that names a
\* wrong-size image (the first in the order test, mask, exemplar), and the call
\* has written no file: no file anywhere was created by that call.
SizeNamed(r, what) ==
  CASE what = "test_img" -> r.test
    [] what = "mask_img" -> r.mask
    [] what = "exemplar_img" -> r.exemplar
    [] OTHER -> expected

FirstWrong(r) ==
  IF r.test # expected THEN "test_img"
  ELSE IF r.mask # expected THEN "mask_img"
  ELSE IF r.exemplar # expected THEN "exemplar_img"
  ELSE ""

FilesBy(c) ==
  {<<loc, nm>> \in Locations \X Names : IsFile(fs[loc][nm]) /\ fs[loc][nm].img.by = c}

C2_ValidationErrorWritesNothing ==
  \A t \in Threads :
    /\ (Returned(t) /\ ~SizesOK(req[t])) =>
         /\ result[t].kind = "ValueError"
         /\ result[t].what = FirstWrong(req[t])
         /\ SizeNamed(req[t], result[t].what) # expected
         /\ FilesBy(id[t]) = {}
    /\ (pc[t] \in InRun /\ ~SizesOK(req[t])) => FilesBy(id[t]) = {}

C2_Witness ==
  \E t \in Threads :
    /\ Returned(t) /\ result[t].kind = "ValueError"
    /\ result[t].what = "exemplar_img"
    /\ req[t].test = expected /\ req[t].mask = expected

\* C3: when run fails on a wrong-size image, the four staging directories hold
\* exactly the files they held before the call: no step of such a call changes them.
C3_ValidationFailureLeavesStagingAsBefore ==
  [][\A t \in Threads :
       (pc[t] \in InRun /\ ~SizesOK(req[t]) /\ pc'[t] # pc[t]) =>
         \A d \in StagingDirs : fs'[d] = fs[d]]_vars

\* C4: after a non-zero exit status run has failed without images, whatever
\* the output directory holds, and the harvest step is not reached.
C4_NonZeroExitFails ==
  \A t \in Threads :
    (exitcode[t] # NoExit /\ exitcode[t] # 0) =>
      /\ Returned(t)
      /\ result[t].kind = "CalledProcessError"
      /\ result[t].imgs = <<>>

C4_Witness ==
  \E t \in Threads :
    /\ exitcode[t] = 1 /\ Returned(t) /\ Latest(t)
    /\ req[t].sample_times = 2
    /\ \A j \in 0..1 : IsFile(OutFile(j)) /\ OutFile(j).img.by = id[t]

\* C5: exit status 0 with an expected output file absent: run fails with an
\* error naming the missing file of lowest index and returns no image.
Missing(t) ==
  {j \in 0..(req[t].sample_times - 1) : ~Exists(fs, "out_dir", OutName(Index, j))}

Lowest(S) == CHOOSE j \in S : \A k \in S : j <= k

C5_MissingOutputFails ==
  \A t \in Threads :
    (Returned(t) /\ Latest(t) /\ exitcode[t] = 0 /\ Missing(t) # {}) =>
      /\ result[t].kind = "FileNotFoundError"
      /\ result[t].what = OutName(Index, Lowest(Missing(t)))
      /\ result[t].imgs = <<>>

C5_Witness ==
  \E t \in Threads :
    /\ Returned(t) /\ Latest(t) /\ exitcode[t] = 0
    /\ req[t].sample_times = 2
    /\ Missing(t) = {1}
    /\ result[t].what = OutName(Index, 1)

\* C6: once the clearing step of the latest call is over, every regular file
\* directly inside a staging directory was created by that call.
DirectFiles == {<<d, nm>> \in StagingDirs \X Names : IsFile(fs[d][nm])}

C6_NoResidueAfterClear ==
  \A t \in Threads :
    (Latest(t) /\ pc[t] \in {"stage", "spawn", "wait", "harvest", "returned", "responded"}) =>
      \A p \in DirectFiles : fs[p[1]][p[2]].img.by = id[t]

C6_Witness ==
  \E t, u \in Threads :
    /\ id[u] = 1 /\ result[u].kind = "ok" /\ req[u].sample_times = 2
    /\ id[t] = 2 /\ pc[t] = "wait" /\ IsFile(OutFile(0))

\* C7: with calls made one at a time, every image of a successful result was
\* written by the external process launched in that same call.
C7_ResultsAreOwn ==
  \A t \in Threads :
    result[t].kind = "ok" =>
      \A k \in 1..Len(result[t].imgs) :
        result[t].imgs[k].by = id[t] /\ result[t].imgs[k].from = id[t]

C7_Witness ==
  \E t, u \in Threads :
    /\ id[u] = 1 /\ result[u].kind = "ok" /\ req[u].sample_times = 2
    /\ id[t] = 2 /\ result[t].kind = "ok" /\ req[t].sample_times = 1

\* C8: there is no lock: whatever the other call is doing, a call's next step
\* (clearing, staging, launching, harvesting) is never held back.
C8_NoLocking ==
  \A t \in Threads :
    /\ pc[t] = "clear" => ENABLED Clear(t)
    /\ pc[t] = "stage" => ENABLED Stage(t)
    /\ pc[t] = "spawn" => ENABLED Spawn(t)
    /\ pc[t] = "harvest" => ENABLED Harvest(t)

\* ... and an overlapping call does return images generated from the other
\* call's inputs
C8_Witness ==
  \E t, u \in Threads :
    /\ t # u /\ id[u] # 0 /\ SizesOK(req[u])
    /\ result[t].kind = "ok" /\ Len(result[t].imgs) >= 1
    /\ result[t].imgs[1].by = id[t]
    /\ result[t].imgs[1].from = id[u]

\* C9: a successful run is answered with the first returned image, never
\* with an error, for every sample_times the adapter accepts.
C9_SuccessIsAnsweredWithFirstImage ==
  \A t \in Threads :
    (pc[t] = "responded" /\ result[t].kind = "ok") =>
      /\ resp[t].kind = "image"
      /\ resp[t].content = EncodePNG(result[t].imgs[1])

\* C10: the clearing step removes every regular file directly inside a staging
\* directory and changes nothing else: subdirectories and the files inside
\* them stay as they are, and so does everything outside the four directories.
C10_ClearFrame ==
  [][\A t \in Threads :
       (pc[t] = "clear" /\ pc'[t] = "stage") =>
         /\ \A d \in StagingDirs : \A nm \in Names :
              fs'[d][nm] = IF IsFile(fs[d][nm]) THEN NoEntry ELSE fs[d][nm]
         /\ \A loc \in Locations \ StagingDirs : fs'[loc] = fs[loc]]_vars

C10_Witness ==
  \E t \in Threads :
    /\ pc[t] = "stage"
    /\ DirectFiles = {}
    /\ \A d \in StagingDirs : fs[d]["sub"] = SubDir
    /\ IsFile(fs["elsewhere"][InName(Index)])

\* C11: clear -> stage -> spawn -> harvest. When the external process is about
\* to be launched, images/mask, images/target and images/exemplar each hold
\* exactly one regular file, 0.png, with the current call's image, and
\* recover_out holds no regular file; output files are read (harvest) only
\* after the process has exited with status 0.
FilesIn(d) == {nm \in Names : IsFile(fs[d][nm])}

C11_StepOrder ==
  \A t \in Threads :
    /\ pc[t] = "spawn" =>
         /\ FilesIn("gt_dir") = {InName(Index)}
         /\ fs["gt_dir"][InName(Index)].img = TestImg(req[t], id[t])
         /\ FilesIn("mask_dir") = {InName(Index)}
         /\ fs["mask_dir"][InName(Index)].img = MaskImg(req[t], id[t])
         /\ FilesIn("exemplar_dir") = {InName(Index)}
         /\ fs["exemplar_dir"][InName(Index)].img = ExemplarImg(req[t], id[t])
         /\ FilesIn("out_dir") = {}
         /\ exitcode[t] = NoExit
    /\ (pc[t] = "harvest" \/ result[t].kind \in {"ok", "FileNotFoundError"}) =>
         exitcode[t] = 0

C11_Witness ==
  \E t, u \in Threads :
    /\ id[u] = 1 /\ result[u].kind = "ok" /\ req[u].sample_times = 2
    /\ id[t] = 2 /\ pc[t] = "spawn"
    /\ fs["out_dir"]["sub"] = SubDir

\* C12: a run call launches the external process at most once: once when the
\* three images pass validation, never when validation fails, and never again
\* after a non-zero exit or a missing output file.
C12_LaunchedAtMostOnce ==
  \A t \in Threads :
    /\ launches[t] <= 1
    /\ pc[t] \in {"clear", "stage", "spawn"} => launches[t] = 0
    /\ pc[t] \in {"wait", "harvest"} => launches[t] = 1
    /\ Returned(t) => launches[t] = (IF SizesOK(req[t]) THEN 1 ELSE 0)

C12_Witness ==
  \E t, u \in Threads :
    /\ Returned(t) /\ exitcode[t] = 1 /\ launches[t] = 1
    /\ Returned(u) /\ result[u].kind = "ValueError" /\ launches[u] = 0

\* C13: run has no timeout and no cancellation. A call that has begun reaches
\* the wait for the external process or fails validation; once the process has
\* exited the call completes with a result or a process-failure or
\* missing-output error; and the wait ends only by the exit of the process.
C13_NoTimeout ==
  /\ \A t \in Threads :
       (pc[t] \in {"clear", "stage", "spawn"}) ~>
         (pc[t] = "wait" \/ (Returned(t) /\ result[t].kind = "ValueError"))
  /\ \A t \in Threads :
       (exitcode[t] # NoExit) ~>
         (Returned(t) /\ result[t].kind \in {"ok", "CalledProcessError", "FileNotFoundError"})
  /\ [][\A t \in Threads :
          (pc[t] = "wait" /\ pc'[t] # "wait") => exitcode'[t] # NoExit]_vars

C13_Witness ==
  \E t, u \in Threads :
    /\ pc[t] = "responded" /\ exitcode[t] = 0 /\ result[t].kind = "ok"
    /\ pc[u] = "wait" /\ exitcode[u] = NoExit

\* C14: after its clearing step a run call deletes nothing. A regular file
\* disappears only in the clearing step of a call, and the staged triplet of
\* the latest call is still on disk after it has returned or failed.
Staged(t) ==
  /\ fs["gt_dir"][InName(Index)] = FileOf(TestImg(req[t], id[t]))
  /\ fs["mask_dir"][InName(Index)] = FileOf(MaskImg(req[t], id[t]))
  /\ fs["exemplar_dir"][InName(Index)] = FileOf(ExemplarImg(req[t], id[t]))

C14_NothingDeletedAfterClear ==
  /\ [][\A loc \in Locations : \A nm \in Names :
          (IsFile(fs[loc][nm]) /\ ~IsFile(fs'[loc][nm])) =>
            \E t \in Threads : pc[t] = "clear" /\ pc'[t] = "stage"]_vars
  /\ [](\A t \in Threads :
          (Returned(t) /\ Latest(t) /\ SizesOK(req[t])) => Staged(t))

C14_Witness ==
  \E t \in Threads :
    /\ pc[t] = "responded" /\ Latest(t) /\ Staged(t)
    /\ result[t].kind = "FileNotFoundError" /\ result[t].what = OutName(Index, 0)
    /\ IsFile(OutFile(1)) /\ OutFile(1).img.by = id[t]

\* C15: with the handler a coroutine that calls run without awaiting, the run
\* executions of requests served by one event loop never overlap: at most one
\* run is in progress, it holds the event loop thread, and from the end of its
\* clearing step to the end of its harvest every regular file directly inside
\* the staging directories is its own.
C15_RunsNeverOverlap ==
  /\ Cardinality({t \in Threads : pc[t] \in InRun}) <= 1
  /\ \A t \in Threads :
       /\ pc[t] \in (InRun \cup {"returned"}) => loop = t
       /\ pc[t] \in {"stage", "spawn", "wait", "harvest"} =>
            \A p \in DirectFiles : fs[p[1]][p[2]].img.by = id[t]

C15_Witness ==
  \E t, u \in Threads :
    /\ pc[t] = "wait" /\ loop = t /\ IsFile(OutFile(0))
    /\ pc[u] = "read_exemplar"

\* C16: construction creates the staging directories that are absent and keeps
\* the existing ones with their files: directories are never removed, every
\* run works on four existing directories, a file changes only by a step of a
\* run call, what was there before the first call is intact, and the staged
\* inputs and harvested outputs of the latest call are still there however
\* often the orchestrator is constructed again.
C16_ConstructionIsIdempotent ==
  /\ [][/\ dirs \subseteq dirs'
        /\ dirs' # dirs => dirs' = StagingDirs
        /\ fs' # fs => \E t \in Threads : pc'[t] # pc[t] \/ pc[t] = "wait"]_vars
  /\ [](calls = 0 => \E ds \in PreDirs : fs = PreFs(ds))
  /\ [](\A t \in Threads :
          /\ pc[t] # "idle" => dirs = StagingDirs
          /\ (Returned(t) /\ Latest(t) /\ SizesOK(req[t])) => Staged(t)
          /\ (Returned(t) /\ Latest(t) /\ result[t].kind = "ok") =>
               \A j \in 0..(req[t].sample_times - 1) : IsFile(OutFile(j)))

C16_Witness ==
  /\ dirs = StagingDirs /\ calls = 0
  /\ fs["out_dir"]["sub"] = SubDir /\ IsFile(OutFile(0))
  /\ fs["mask_dir"]["sub"] = NoEntry

====
